---- MODULE Spec2Model ----
(***************************************************************************)
(* A model of ace_routine::cli::CommandDispatcher (CommandDispatcher.h):   *)
(* the coroutine that awaits lines from a SerialReader, tokenizes each     *)
(* line with strtok() and dispatches it to a handler of a static table.    *)
(*                                                                         *)
(* A C string is a sequence of one-character strings without its           *)
(* terminating NUL.  The Serial port is the sequence of the lines written  *)
(* to it; a line ends where the code calls println().                      *)
(***************************************************************************)
EXTENDS Naturals, Sequences, FiniteSets, TLC

VARIABLES
    table,      \* mDispatchTable[0 .. mNumCommands-1], fixed at construction
    pc,         \* where runRoutine() is suspended: "AWAIT_LINE" | "RECOVER_OVERFLOW"
    serial,     \* the lines written to Serial so far
    calls,      \* the handler invocations made so far
    trace,      \* the outcomes getLine() has delivered so far, with marks
    tokLine,    \* tokenizer harness: the line handed to tokenize()
    tokSize,    \* tokenizer harness: the argvSize handed to tokenize()
    tokResult,  \* tokenizer harness: what tokenize() returned, or NotRun
    running,    \* statement level: the scheduler is inside runRoutine()
    cur,        \* statement level: the locals isError and line of runRoutine()
    lastRan     \* statement level: whose turn the scheduler gave last

vars == <<table, pc, serial, calls, trace, tokLine, tokSize, tokResult,
          running, cur, lastRan>>

----------------------------------------------------------------------------
(* Program constants *)

ARGV_SIZE == 10
STATUS_SUCCESS == 0
STATUS_BUFFER_OVERFLOW == 1
STATUS_FLUSH_TO_EOL == 2

\* The NUL byte strtok() writes over the delimiter that ends a token.
NUL == "NUL"

\* The null pointer: C strings are addressed by their 1-based index in the line.
nullptr == 0

\* DELIMS is declared in the header and defined outside it: space and tab.
DELIMS == {" ", "\t"}

\* The string literals of the header.
S_help == <<"h", "e", "l", "p">>
S_BufferOverflow == <<"B", "u", "f", "f", "e", "r", "O", "v", "e", "r", "f", "l", "o", "w", ":", " ">>
S_FlushToEOL == <<"F", "l", "u", "s", "h", "T", "o", "E", "O", "L", ":", " ">>
S_UnknownError == <<"U", "n", "k", "n", "o", "w", "n", "E", "r", "r", "o", "r">>
S_UsageHelp == <<"U", "s", "a", "g", "e", ":", " ", "h", "e", "l", "p", " ", "[", "c", "o", "m", "m", "a", "n", "d", "]">>
S_Usage == <<"U", "s", "a", "g", "e", ":", " ">>
S_UnknownCommand == <<"U", "n", "k", "n", "o", "w", "n", " ", "c", "o", "m", "m", "a", "n", "d", ":", " ">>
S_CommandsHelp == <<"C", "o", "m", "m", "a", "n", "d", "s", ":", " ", "h", "e", "l", "p", " ">>

----------------------------------------------------------------------------
(* strtok(), as tokenize() uses it *)

\* buf[i] is the end of the C string: the terminating NUL or a NUL written earlier.
IsEnd(buf, i) == i > Len(buf) \/ buf[i] = NUL

\* strspn: the first position at or after i that holds no delimiter.
RECURSIVE SkipDelims(_, _)
SkipDelims(buf, i) ==
    IF ~IsEnd(buf, i) /\ buf[i] \in DELIMS THEN SkipDelims(buf, i + 1) ELSE i

\* strcspn: the first position at or after i that holds a delimiter or the end.
RECURSIVE ScanToken(_, _)
ScanToken(buf, i) ==
    IF ~IsEnd(buf, i) /\ buf[i] \notin DELIMS THEN ScanToken(buf, i + 1) ELSE i

\* A strtok() that takes every delimiter as the end of a token.
StrtokNoSkip(buf, save) ==
    LET e == ScanToken(buf, save)
    IN  IF IsEnd(buf, save)
        THEN [token |-> nullptr, buf |-> buf, save |-> save]
        ELSE IF IsEnd(buf, e)
             THEN [token |-> save, buf |-> buf, save |-> e]
             ELSE [token |-> save, buf |-> [buf EXCEPT ![e] = NUL], save |-> e + 1]

\* One call of strtok() that scans buf from position save: the token found (or
\* nullptr), the buffer with the token's delimiter overwritten, the next position.
Strtok(buf, save) ==
    LET s == SkipDelims(buf, save)
        e == ScanToken(buf, s)
    IN  IF IsEnd(buf, s)
        THEN [token |-> nullptr, buf |-> buf, save |-> s]
        ELSE IF IsEnd(buf, e)
             THEN [token |-> s, buf |-> buf, save |-> e]
             ELSE [token |-> s, buf |-> [buf EXCEPT ![e] = NUL], save |-> e + 1]

\* The C string that starts at buf[i].
RECURSIVE CStr(_, _)
CStr(buf, i) == IF IsEnd(buf, i) THEN <<>> ELSE <<buf[i]>> \o CStr(buf, i + 1)

UpperCase == <<"A", "B", "C", "D", "E", "F", "G", "H", "I", "J", "K", "L", "M", "N", "O", "P", "Q", "R", "S", "T", "U", "V", "W", "X", "Y", "Z">>
LowerCase == <<"a", "b", "c", "d", "e", "f", "g", "h", "i", "j", "k", "l", "m", "n", "o", "p", "q", "r", "s", "t", "u", "v", "w", "x", "y", "z">>

\* tolower(c)
ToLower(c) ==
    IF \E n \in 1..Len(UpperCase) : UpperCase[n] = c
    THEN LowerCase[CHOOSE n \in 1..Len(UpperCase) : UpperCase[n] = c]
    ELSE c

\* strcasecmp(a, b) == 0: a comparison that ignores case.
StrEqIgnoreCase(a, b) ==
    /\ Len(a) = Len(b)
    /\ \A n \in 1..Len(a) : ToLower(a[n]) = ToLower(b[n])

\* strcmp(a, b) == 0
StrEq(a, b) == a = b

----------------------------------------------------------------------------
(* tokenize() *)

\* A loop that stores tokens for as long as strtok() finds them.
RECURSIVE TokenizeLoopUnbounded(_, _, _, _, _)
TokenizeLoopUnbounded(buf, save, token, argvSize, argv) ==
    IF token # nullptr
    THEN LET r == Strtok(buf, save)
         IN  TokenizeLoopUnbounded(r.buf, r.save, r.token, argvSize, Append(argv, token))
    ELSE [argc |-> Len(argv), argv |-> argv, buf |-> buf]

\* The while loop of tokenize(): argv holds the tokens stored so far.
RECURSIVE TokenizeLoop(_, _, _, _, _)
TokenizeLoop(buf, save, token, argvSize, argv) ==
    IF token # nullptr /\ Len(argv) < argvSize
    THEN LET r == Strtok(buf, save)
         IN  TokenizeLoop(r.buf, r.save, r.token, argvSize, Append(argv, token))
    ELSE [argc |-> Len(argv), argv |-> argv, buf |-> buf]

\* tokenize(line, argvSize, argv): argc, the pointers stored in argv, and the
\* line as strtok() left it.
Tokenize(line, argvSize) ==
    LET r == Strtok(line, 1)
    IN  TokenizeLoop(r.buf, r.save, r.token, argvSize, <<>>)

\* The strings argv[0 .. argc-1] point to once tokenize() has returned.
ArgStrings(t) == [k \in 1..t.argc |-> CStr(t.buf, t.argv[k])]

----------------------------------------------------------------------------
(* printLineError(), helpCommandHandler(), runCommand() *)

\* printLineError(line, statusCode): the lines it writes to Serial.
PrintLineError(line, statusCode) ==
    IF statusCode = STATUS_BUFFER_OVERFLOW
    THEN << S_BufferOverflow \o line >>
    ELSE IF statusCode = STATUS_FLUSH_TO_EOL
         THEN << S_FlushToEOL \o line >>
         ELSE << S_UnknownError >>

\* A scan that keeps the last matching record instead of returning at the first.
RECURSIVE FindRecordLast(_, _, _)
FindRecordLast(tbl, cmd, i) ==
    IF i > Len(tbl) THEN 0
    ELSE LET rest == FindRecordLast(tbl, cmd, i + 1)
         IN  IF rest # 0 THEN rest
             ELSE IF StrEq(tbl[i].name, cmd) THEN i ELSE 0

\* A scan that stops one record short of mNumCommands.
RECURSIVE FindRecordShort(_, _, _)
FindRecordShort(tbl, cmd, i) ==
    IF i >= Len(tbl) THEN 0
    ELSE IF StrEq(tbl[i].name, cmd) THEN i
         ELSE FindRecordShort(tbl, cmd, i + 1)

\* The scan `for (i = 0; i < mNumCommands; i++) if (strcmp(record->name, cmd) == 0)`
\* from record i on: the index of the record it returns at, 0 when it runs out.
RECURSIVE FindRecord(_, _, _)
FindRecord(tbl, cmd, i) ==
    IF i > Len(tbl) THEN 0
    ELSE IF StrEq(tbl[i].name, cmd) THEN i
         ELSE FindRecord(tbl, cmd, i + 1)

\* How many records the same scan compares with cmd, from record i on, before
\* it returns or runs out.
RECURSIVE ScanLength(_, _, _)
ScanLength(tbl, cmd, i) ==
    IF i > Len(tbl) THEN 0
    ELSE IF StrEq(tbl[i].name, cmd) THEN 1
         ELSE 1 + ScanLength(tbl, cmd, i + 1)

\* The names the banner loop prints, each followed by ' ', from record i on.
RECURSIVE CommandNames(_, _)
CommandNames(tbl, i) ==
    IF i > Len(tbl) THEN <<>>
    ELSE tbl[i].name \o <<" ">> \o CommandNames(tbl, i + 1)

\* A help handler that looks its argument up whenever there is one.
HelpCommandHandlerAnyArg(tbl, argc, argv) ==
    IF argc >= 2
    THEN LET cmd == argv[2]
             i == FindRecord(tbl, cmd, 1)
         IN  IF StrEq(cmd, S_help) THEN << S_UsageHelp >>
             ELSE IF i # 0
                  THEN << S_Usage \o cmd \o <<" ">> \o tbl[i].helpString >>
                  ELSE << S_UnknownCommand \o cmd >>
    ELSE << S_UsageHelp, S_CommandsHelp \o CommandNames(tbl, 1) >>

\* A help handler that scans the table before it tests for "help".
HelpCommandHandlerScanFirst(tbl, argc, argv) ==
    IF argc = 2
    THEN LET cmd == argv[2]
             i == FindRecord(tbl, cmd, 1)
         IN  IF i # 0
             THEN << S_Usage \o cmd \o <<" ">> \o tbl[i].helpString >>
             ELSE IF StrEq(cmd, S_help) THEN << S_UsageHelp >>
                  ELSE << S_UnknownCommand \o cmd >>
    ELSE << S_UsageHelp, S_CommandsHelp \o CommandNames(tbl, 1) >>

\* helpCommandHandler(argc, argv): the lines it writes to Serial.  argv holds
\* the argument strings, argv[1] being the C argv[0].
HelpCommandHandler(tbl, argc, argv) ==
    IF argc = 2
    THEN LET cmd == argv[2]
             i == FindRecord(tbl, cmd, 1)
         IN  IF StrEq(cmd, S_help) THEN << S_UsageHelp >>
             ELSE IF i # 0
                  THEN << S_Usage \o cmd \o <<" ">> \o tbl[i].helpString >>
                  ELSE << S_UnknownCommand \o cmd >>
    ELSE << S_UsageHelp, S_CommandsHelp \o CommandNames(tbl, 1) >>

\* A runCommand() that looks the table up before it tests for "help".
RunCommandTableFirst(tbl, line) ==
    LET t == Tokenize(line, ARGV_SIZE)
        argv == ArgStrings(t)
        i == FindRecord(tbl, argv[1], 1)
    IN  IF t.argc = 0 THEN [out |-> <<>>, calls |-> <<>>]
        ELSE IF i # 0
             THEN [out |-> <<>>,
                   calls |-> << [handler |-> tbl[i].handler, argc |-> t.argc, argv |-> argv] >>]
             ELSE IF StrEq(argv[1], S_help)
                  THEN [out |-> HelpCommandHandler(tbl, t.argc, argv), calls |-> <<>>]
                  ELSE [out |-> << S_UnknownCommand \o argv[1] >>, calls |-> <<>>]

\* A runCommand() that hands the handler its arguments without the command name.
RunCommandStripsName(tbl, line) ==
    LET t == Tokenize(line, ARGV_SIZE)
        argv == ArgStrings(t)
        i == FindRecord(tbl, argv[1], 1)
    IN  IF t.argc = 0 THEN [out |-> <<>>, calls |-> <<>>]
        ELSE IF StrEq(argv[1], S_help)
             THEN [out |-> HelpCommandHandler(tbl, t.argc, argv), calls |-> <<>>]
             ELSE IF i # 0
                  THEN [out |-> <<>>,
                        calls |-> << [handler |-> tbl[i].handler, argc |-> t.argc - 1,
                                      argv |-> Tail(argv)] >>]
                  ELSE [out |-> << S_UnknownCommand \o argv[1] >>, calls |-> <<>>]

\* A runCommand() without `if (argc == 0) return`: cmd is then an empty string.
RunCommandNoEmptyCheck(tbl, line) ==
    LET t == Tokenize(line, ARGV_SIZE)
        argv == ArgStrings(t)
        cmd == IF t.argc = 0 THEN << >> ELSE argv[1]
        i == FindRecord(tbl, cmd, 1)
    IN  IF StrEq(cmd, S_help)
        THEN [out |-> HelpCommandHandler(tbl, t.argc, argv), calls |-> <<>>]
        ELSE IF i # 0
             THEN [out |-> <<>>,
                   calls |-> << [handler |-> tbl[i].handler, argc |-> t.argc, argv |-> argv] >>]
             ELSE [out |-> << S_UnknownCommand \o cmd >>, calls |-> <<>>]

\* A runCommand() without the `return` after helpCommandHandler(): the table
\* scan follows the help text.
RunCommandHelpFallsThrough(tbl, line) ==
    LET t == Tokenize(line, ARGV_SIZE)
        argv == ArgStrings(t)
        i == FindRecord(tbl, argv[1], 1)
        help == IF StrEq(argv[1], S_help)
                THEN HelpCommandHandler(tbl, t.argc, argv) ELSE << >>
    IN  IF t.argc = 0 THEN [out |-> <<>>, calls |-> <<>>]
        ELSE IF i # 0
             THEN [out |-> help,
                   calls |-> << [handler |-> tbl[i].handler, argc |-> t.argc, argv |-> argv] >>]
             ELSE [out |-> help \o << S_UnknownCommand \o argv[1] >>, calls |-> <<>>]

\* runCommand(line): the lines it writes to Serial and the handler calls it
\* makes, each call with the handler called, argc and the strings of argv.
RunCommand(tbl, line) ==
    LET t == Tokenize(line, ARGV_SIZE)
        argv == ArgStrings(t)
        i == FindRecord(tbl, argv[1], 1)
    IN  IF t.argc = 0 THEN [out |-> <<>>, calls |-> <<>>]
        ELSE IF StrEq(argv[1], S_help)
             THEN [out |-> HelpCommandHandler(tbl, t.argc, argv), calls |-> <<>>]
             ELSE IF i # 0
                  THEN [out |-> <<>>,
                        calls |-> << [handler |-> tbl[i].handler, argc |-> t.argc, argv |-> argv] >>]
                  ELSE [out |-> << S_UnknownCommand \o argv[1] >>, calls |-> <<>>]

----------------------------------------------------------------------------
(* runRoutine(): one step runs from the return of an await to the next await *)

\* A first await that dispatches the fragment of an overflowed line as well.
AwaitLineStepRunsOverflow(tbl, isError, line) ==
    IF isError
    THEN [out |-> PrintLineError(line, STATUS_BUFFER_OVERFLOW) \o RunCommand(tbl, line).out,
          calls |-> RunCommand(tbl, line).calls,
          pc |-> "RECOVER_OVERFLOW"]
    ELSE [out |-> RunCommand(tbl, line).out,
          calls |-> RunCommand(tbl, line).calls,
          pc |-> "AWAIT_LINE"]

\* A first await that reports the overflow and does not enter the flush loop.
AwaitLineStepNoRecovery(tbl, isError, line) ==
    IF isError
    THEN [out |-> PrintLineError(line, STATUS_BUFFER_OVERFLOW),
          calls |-> <<>>,
          pc |-> "AWAIT_LINE"]
    ELSE [out |-> RunCommand(tbl, line).out,
          calls |-> RunCommand(tbl, line).calls,
          pc |-> "AWAIT_LINE"]

\* The code from the return of the await of line 155 to the next await: what
\* it writes to Serial, the handler calls it makes, where it suspends next.
AwaitLineStep(tbl, isError, line) ==
    IF isError
    THEN [out |-> PrintLineError(line, STATUS_BUFFER_OVERFLOW),
          calls |-> <<>>,
          pc |-> "RECOVER_OVERFLOW"]
    ELSE [out |-> RunCommand(tbl, line).out,
          calls |-> RunCommand(tbl, line).calls,
          pc |-> "AWAIT_LINE"]

\* A flush loop that falls through to runCommand() with the last fragment.
RecoverStepRunsTail(tbl, isError, line) ==
    IF isError
    THEN [out |-> PrintLineError(line, STATUS_FLUSH_TO_EOL), calls |-> <<>>,
          pc |-> "RECOVER_OVERFLOW"]
    ELSE [out |-> PrintLineError(line, STATUS_FLUSH_TO_EOL) \o RunCommand(tbl, line).out,
          calls |-> RunCommand(tbl, line).calls,
          pc |-> "AWAIT_LINE"]

\* A flush loop that `while (true)` never leaves.
RecoverStepNeverLeaves(tbl, isError, line) ==
    [out |-> PrintLineError(line, STATUS_FLUSH_TO_EOL),
     calls |-> <<>>,
     pc |-> "RECOVER_OVERFLOW"]

\* A flush loop that reports its fragments with STATUS_SUCCESS.
RecoverStepStatusSuccess(tbl, isError, line) ==
    [out |-> PrintLineError(line, STATUS_SUCCESS),
     calls |-> <<>>,
     pc |-> IF isError THEN "RECOVER_OVERFLOW" ELSE "AWAIT_LINE"]

\* A flush loop that reports a fragment only while it still overflows.
RecoverStepSilentTail(tbl, isError, line) ==
    [out |-> IF isError THEN PrintLineError(line, STATUS_FLUSH_TO_EOL) ELSE <<>>,
     calls |-> <<>>,
     pc |-> IF isError THEN "RECOVER_OVERFLOW" ELSE "AWAIT_LINE"]

\* The code from the return of the await of line 160 to the next await: the
\* fragment is reported, then `while (isError)` loops or `continue` leaves.
RecoverStep(tbl, isError, line) ==
    [out |-> PrintLineError(line, STATUS_FLUSH_TO_EOL),
     calls |-> <<>>,
     pc |-> IF isError THEN "RECOVER_OVERFLOW" ELSE "AWAIT_LINE"]

----------------------------------------------------------------------------
(* The inputs: dispatch tables and the outcomes of getLine() *)

\* How many outcomes of getLine() one run takes.
MaxOutcomes == 3

\* The longest line of the exhaustive tokenizer inputs.
MaxLineLen == 5

\* How many tokens beyond ARGV_SIZE the long tokenizer inputs reach.
MaxExtraTokens == 2

Record(h, n, hs) == [handler |-> h, name |-> n, helpString |-> hs]

TableUnique == << Record(1, <<"a">>, <<"<", "n", ">">>), Record(2, <<"b">>, <<>>) >>
TableWithHelp == << Record(1, <<"a">>, <<"1">>), Record(2, S_help, <<"2">>),
                    Record(3, <<"b">>, <<"3">>) >>
TableDuplicate == << Record(1, <<"a">>, <<"1">>), Record(2, <<"b">>, <<"2">>),
                     Record(3, <<"a">>, <<"3">>) >>
TableSpacedName == << Record(1, <<"a", " ", "x">>, <<"1">>), Record(2, <<"b">>, <<"2">>) >>
TableEmpty == << >>

DispatchTables == {TableUnique, TableWithHelp, TableDuplicate, TableSpacedName, TableEmpty}

L_a_x_y == <<"a", " ", "x", " ", "y">>
L_b_x_y == <<"b", " ", "x", " ", "y">>
L_a_x_x_y == <<"a", " ", "x", " ", "x", " ", "y">>
L_help_x_y == <<"h", "e", "l", "p", " ", "x", " ", "y">>
L_help == <<"h", "e", "l", "p">>
L_help_a == <<"h", "e", "l", "p", " ", "a">>
L_help_b == <<" ", "h", "e", "l", "p", "\t", "b", " ">>
L_help_help == <<"h", "e", "l", "p", " ", "h", "e", "l", "p">>
L_help_c == <<"h", "e", "l", "p", " ", "c">>
L_A_x_y == <<"A", " ", " ", "x", "\t", "y">>
L_empty == <<>>
L_delims == <<" ", "\t", " ">>
L_a_long == <<"a", " ", "1", " ", "2", " ", "3", " ", "4", " ", "5", " ", "6", " ", "7", " ", "8", " ", "9", " ", "A", " ", "B">>
L_b_long == <<" ", "b", "\t", "1", " ", "2", " ", " ", "3", " ", "4", " ", "5", " ", "6", " ", "7", " ", "8", " ", "9", " ", "A", "\t">>
L_help_long == <<"h", "e", "l", "p", " ", "1", " ", "2", " ", "3", " ", "4", " ", "5", " ", "6", " ", "7", " ", "8", " ", "9">>
L_ghi == <<"g", "h", "i">>
L_abc == <<"a", "b", "c">>
L_def == <<"d", "e", "f">>

\* The lines getLine() delivers whole.
SuccessLines ==
    {L_a_x_y, L_b_x_y, L_a_x_x_y, L_help_x_y, L_help, L_help_a, L_help_b, L_help_help,
     L_help_c, L_A_x_y, L_empty, L_delims, L_a_long, L_b_long, L_help_long, L_ghi}

\* The fragments getLine() delivers of a line that overflowed its buffer.
OverflowFragments == {L_abc, L_def, L_help, L_a_x_y}

NoOutcomes == << >>

\* The locals isError and line before getLine() has set them.
NoLine == [isError |-> FALSE, line |-> << >>]

Init ==
    /\ table \in DispatchTables
    /\ pc = "AWAIT_LINE"
    /\ serial = << >>
    /\ calls = << >>
    /\ trace = NoOutcomes
    /\ tokLine = << >>
    /\ tokSize = 0
    /\ tokResult = << >>
    /\ running = FALSE
    /\ cur = NoLine
    /\ lastRan = "dispatcher"

\* The outcome is noted with where runRoutine() stood and how much had been
\* written and called before it.
Delivered(isError, line) ==
    Append(trace, [pc |-> pc, isError |-> isError, line |-> line,
                   serialAt |-> Len(serial), callsAt |-> Len(calls)])

\* getLine() returns true at line 155 with (isError, line).
RunRoutineAwaitLine(isError, line) ==
    /\ pc = "AWAIT_LINE"
    /\ Len(trace) < MaxOutcomes
    /\ LET r == AwaitLineStep(table, isError, line)
       IN  /\ serial' = serial \o r.out
           /\ calls' = calls \o r.calls
           /\ pc' = r.pc
    /\ trace' = Delivered(isError, line)
    /\ UNCHANGED <<table, tokLine, tokSize, tokResult, running, cur, lastRan>>

\* getLine() returns true at line 160 with (isError, line).
RunRoutineRecoverOverflow(isError, line) ==
    /\ pc = "RECOVER_OVERFLOW"
    /\ Len(trace) < MaxOutcomes
    /\ LET r == RecoverStep(table, isError, line)
       IN  /\ serial' = serial \o r.out
           /\ calls' = calls \o r.calls
           /\ pc' = r.pc
    /\ trace' = Delivered(isError, line)
    /\ UNCHANGED <<table, tokLine, tokSize, tokResult, running, cur, lastRan>>

Next ==
    \/ \E line \in SuccessLines : RunRoutineAwaitLine(FALSE, line)
    \/ \E line \in OverflowFragments : RunRoutineAwaitLine(TRUE, line)
    \/ \E line \in SuccessLines : RunRoutineRecoverOverflow(FALSE, line)
    \/ \E line \in OverflowFragments : RunRoutineRecoverOverflow(TRUE, line)

Spec == Init /\ [][Next]_vars

----------------------------------------------------------------------------
(* tokenize() on its own *)

TokAlphabet == {"a", "b", " ", "\t"}

RECURSIVE LinesOfLen(_)
LinesOfLen(n) ==
    IF n = 0 THEN { << >> }
    ELSE {Append(l, c) : l \in LinesOfLen(n - 1), c \in TokAlphabet}

ShortLines == UNION {LinesOfLen(n) : n \in 0..MaxLineLen}

TokenChars == <<"1", "2", "3", "4", "5", "6", "7", "8", "9", "A", "B", "C", "D">>

\* k one-character tokens, each followed by sep.
RECURSIVE TokensWithSep(_, _)
TokensWithSep(k, sep) ==
    IF k = 0 THEN << >>
    ELSE TokensWithSep(k - 1, sep) \o << TokenChars[k] >> \o sep

LongLines ==
    {lead \o TokensWithSep(k, sep) \o << "a", "b" >> \o trail :
        k \in (ARGV_SIZE - 2)..(ARGV_SIZE + MaxExtraTokens - 1),
        sep \in {<< " " >>, << "\t", " " >>},
        lead \in {<< >>, << " " >>},
        trail \in {<< >>, << "\t" >>}}

TokLines == ShortLines \cup LongLines

TokSizes == {1, 2, 3, ARGV_SIZE}

InitTokenize ==
    /\ table = TableEmpty
    /\ pc = "AWAIT_LINE"
    /\ serial = << >>
    /\ calls = << >>
    /\ trace = NoOutcomes
    /\ tokLine \in TokLines
    /\ tokSize \in TokSizes
    /\ tokResult = << >>
    /\ running = FALSE
    /\ cur = NoLine
    /\ lastRan = "dispatcher"

\* tokenize(tokLine, tokSize, argv) is called and its result is kept.
TokenizeCall ==
    /\ tokResult = << >>
    /\ LET t == Tokenize(tokLine, tokSize)
       IN  tokResult' = << [argc |-> t.argc, argv |-> ArgStrings(t)] >>
    /\ UNCHANGED <<table, pc, serial, calls, trace, tokLine, tokSize, running, cur, lastRan>>

NextTokenize == TokenizeCall

SpecTokenize == InitTokenize /\ [][NextTokenize]_vars

----------------------------------------------------------------------------
(* runRoutine() statement by statement, under the cooperative scheduler *)

\* The statements of runRoutine(), named by what they do: the await of line
\* 155, `if (isError)` of line 157, the print of line 158, `while (isError)` of
\* line 159, the await of line 160, the print of line 161, `continue` of line
\* 163 and runCommand(line) of line 166.
Statements ==
    {"AWAIT_LINE", "IF_ERROR", "PRINT_OVERFLOW", "WHILE_ERROR", "RECOVER_OVERFLOW",
     "PRINT_FLUSH", "CONTINUE", "RUN_COMMAND"}

\* A routine with a COROUTINE_YIELD() in front of runCommand(line).
YieldsAtRunCommandToo(p) == p \in {"AWAIT_LINE", "RECOVER_OVERFLOW", "RUN_COMMAND"}

\* The statements of runRoutine() that are COROUTINE_AWAITs.
YieldsAt(p) == p \in {"AWAIT_LINE", "RECOVER_OVERFLOW"}

\* The statement that follows an await whose getLine() has returned true.
AfterAwait(p) == IF p = "AWAIT_LINE" THEN "IF_ERROR" ELSE "PRINT_FLUSH"

\* A routine that goes back to the await without runCommand(line).
ExecStatementSkipsRunCommand(tbl, p, isError, line) ==
    IF p = "IF_ERROR"
    THEN [out |-> <<>>, calls |-> <<>>,
          pc |-> IF isError THEN "PRINT_OVERFLOW" ELSE "AWAIT_LINE"]
    ELSE IF p = "PRINT_OVERFLOW"
    THEN [out |-> PrintLineError(line, STATUS_BUFFER_OVERFLOW), calls |-> <<>>,
          pc |-> "WHILE_ERROR"]
    ELSE IF p = "WHILE_ERROR"
    THEN [out |-> <<>>, calls |-> <<>>,
          pc |-> IF isError THEN "RECOVER_OVERFLOW" ELSE "CONTINUE"]
    ELSE IF p = "PRINT_FLUSH"
    THEN [out |-> PrintLineError(line, STATUS_FLUSH_TO_EOL), calls |-> <<>>,
          pc |-> "WHILE_ERROR"]
    ELSE IF p = "CONTINUE"
    THEN [out |-> <<>>, calls |-> <<>>, pc |-> "AWAIT_LINE"]
    ELSE [out |-> RunCommand(tbl, line).out, calls |-> RunCommand(tbl, line).calls,
          pc |-> "AWAIT_LINE"]

\* A routine with `break` for `continue`: it leaves the loop and ends.
ExecStatementBreaks(tbl, p, isError, line) ==
    IF p = "IF_ERROR"
    THEN [out |-> <<>>, calls |-> <<>>,
          pc |-> IF isError THEN "PRINT_OVERFLOW" ELSE "RUN_COMMAND"]
    ELSE IF p = "PRINT_OVERFLOW"
    THEN [out |-> PrintLineError(line, STATUS_BUFFER_OVERFLOW), calls |-> <<>>,
          pc |-> "WHILE_ERROR"]
    ELSE IF p = "WHILE_ERROR"
    THEN [out |-> <<>>, calls |-> <<>>,
          pc |-> IF isError THEN "RECOVER_OVERFLOW" ELSE "CONTINUE"]
    ELSE IF p = "PRINT_FLUSH"
    THEN [out |-> PrintLineError(line, STATUS_FLUSH_TO_EOL), calls |-> <<>>,
          pc |-> "WHILE_ERROR"]
    ELSE IF p = "CONTINUE"
    THEN [out |-> <<>>, calls |-> <<>>, pc |-> "ENDED"]
    ELSE [out |-> RunCommand(tbl, line).out, calls |-> RunCommand(tbl, line).calls,
          pc |-> "AWAIT_LINE"]

\* One statement of runRoutine() other than an await, with the locals isError
\* and line: what it writes, what it calls, the statement that comes next.
ExecStatement(tbl, p, isError, line) ==
    IF p = "IF_ERROR"
    THEN [out |-> <<>>, calls |-> <<>>,
          pc |-> IF isError THEN "PRINT_OVERFLOW" ELSE "RUN_COMMAND"]
    ELSE IF p = "PRINT_OVERFLOW"
    THEN [out |-> PrintLineError(line, STATUS_BUFFER_OVERFLOW), calls |-> <<>>,
          pc |-> "WHILE_ERROR"]
    ELSE IF p = "WHILE_ERROR"
    THEN [out |-> <<>>, calls |-> <<>>,
          pc |-> IF isError THEN "RECOVER_OVERFLOW" ELSE "CONTINUE"]
    ELSE IF p = "PRINT_FLUSH"
    THEN [out |-> PrintLineError(line, STATUS_FLUSH_TO_EOL), calls |-> <<>>,
          pc |-> "WHILE_ERROR"]
    ELSE IF p = "CONTINUE"
    THEN [out |-> <<>>, calls |-> <<>>, pc |-> "AWAIT_LINE"]
    ELSE [out |-> RunCommand(tbl, line).out, calls |-> RunCommand(tbl, line).calls,
          pc |-> "AWAIT_LINE"]

\* The tables and outcomes of the statement-level runs.
SchedTables == {TableUnique, TableWithHelp}
SchedLines == {L_a_x_y, L_help, L_empty, L_A_x_y, L_a_long}
SchedFragments == {L_abc}

InitSched ==
    /\ table \in SchedTables
    /\ pc = "AWAIT_LINE"
    /\ serial = << >>
    /\ calls = << >>
    /\ trace = NoOutcomes
    /\ tokLine = << >>
    /\ tokSize = 0
    /\ tokResult = << >>
    /\ running = FALSE
    /\ cur = NoLine
    /\ lastRan = "other"

\* The scheduler gives the dispatcher its turn: runRoutine() is entered and
\* jumps to the statement it was suspended at.
CoroutineResume ==
    /\ ~running
    /\ running' = TRUE
    /\ lastRan' = "dispatcher"
    /\ UNCHANGED <<table, pc, serial, calls, trace, tokLine, tokSize, tokResult, cur>>

\* The statement is one that suspends: runRoutine() returns to the scheduler,
\* to be entered at the same statement again; its locals do not outlive it.
CoroutineYield ==
    /\ running
    /\ YieldsAt(pc)
    /\ running' = FALSE
    /\ cur' = NoLine
    /\ UNCHANGED <<table, pc, serial, calls, trace, tokLine, tokSize, tokResult, lastRan>>

\* The scheduler gives another coroutine its turn; it can while the dispatcher
\* is suspended, and only then.
OtherCoroutineRuns ==
    /\ ~running
    /\ lastRan = "dispatcher"
    /\ lastRan' = "other"
    /\ UNCHANGED <<table, pc, serial, calls, trace, tokLine, tokSize, tokResult,
                   running, cur>>

\* getLine() returns true in the await the routine stands at and sets the
\* locals isError and line.
AwaitReturns(isError, line) ==
    /\ running
    /\ pc \in {"AWAIT_LINE", "RECOVER_OVERFLOW"}
    /\ Len(trace) < MaxOutcomes
    /\ cur' = [isError |-> isError, line |-> line]
    /\ trace' = Delivered(isError, line)
    /\ pc' = AfterAwait(pc)
    /\ UNCHANGED <<table, serial, calls, tokLine, tokSize, tokResult, running, lastRan>>

\* The routine executes the statement it stands at, which is no await.
Statement ==
    /\ running
    /\ pc \in Statements \ {"AWAIT_LINE", "RECOVER_OVERFLOW"}
    /\ LET r == ExecStatement(table, pc, cur.isError, cur.line)
       IN  /\ serial' = serial \o r.out
           /\ calls' = calls \o r.calls
           /\ pc' = r.pc
    /\ UNCHANGED <<table, trace, tokLine, tokSize, tokResult, running, cur, lastRan>>

NextSched ==
    \/ CoroutineResume
    \/ CoroutineYield
    \/ OtherCoroutineRuns
    \/ \E line \in SchedLines : AwaitReturns(FALSE, line)
    \/ \E line \in SchedFragments : AwaitReturns(TRUE, line)
    \/ Statement

SpecSched == InitSched /\ [][NextSched]_vars

----------------------------------------------------------------------------
(* What the claims speak of *)

\* The steps taken so far, one per outcome delivered.
Steps == 1..Len(trace)

\* The lines step k wrote to Serial.
StepOut(k) ==
    SubSeq(serial, trace[k].serialAt + 1,
           IF k < Len(trace) THEN trace[k + 1].serialAt ELSE Len(serial))

\* The handler calls step k made.
StepCalls(k) ==
    SubSeq(calls, trace[k].callsAt + 1,
           IF k < Len(trace) THEN trace[k + 1].callsAt ELSE Len(calls))

\* Where runRoutine() was suspended after step k.
PcAfter(k) == IF k < Len(trace) THEN trace[k + 1].pc ELSE pc

IsPrefix(p, s) == Len(p) <= Len(s) /\ SubSeq(s, 1, Len(p)) = p

\* How many of the lines in out start with prefix p.
CountPrefixed(out, p) == Cardinality({i \in 1..Len(out) : IsPrefix(p, out[i])})

\* A line of the help subsystem or an unknown-command diagnostic.
IsDispatchOutput(l) ==
    IsPrefix(S_Usage, l) \/ IsPrefix(S_CommandsHelp, l) \/ IsPrefix(S_UnknownCommand, l)

\* Tokens by their definition: line[i..j] is a maximal run of non-delimiters.
IsRun(line, i, j) ==
    /\ 1 <= i /\ i <= j /\ j <= Len(line)
    /\ \A n \in i..j : line[n] \notin DELIMS
    /\ i = 1 \/ line[i - 1] \in DELIMS
    /\ j = Len(line) \/ line[j + 1] \in DELIMS

\* Where the maximal runs start: at a non-delimiter that no non-delimiter precedes.
RunStarts(line) ==
    {i \in 1..Len(line) : line[i] \notin DELIMS /\ (i = 1 \/ line[i - 1] \in DELIMS)}

NumRuns(line) == Cardinality(RunStarts(line))

\* The n-th maximal run of the line, counted from the left.
NthRun(line, n) ==
    LET i == CHOOSE s \in RunStarts(line) :
                 Cardinality({r \in RunStarts(line) : r < s}) = n - 1
        j == CHOOSE e \in i..Len(line) : IsRun(line, i, e)
    IN  SubSeq(line, i, j)

\* The first n maximal runs of the line, left to right.
FirstRuns(line, n) == [k \in 1..n |-> NthRun(line, k)]

MaximalRuns(line) == FirstRuns(line, NumRuns(line))

Min(a, b) == IF a < b THEN a ELSE b

\* The step taken last.  Every step of a run is the last step of the state it
\* leads to, so a statement about the last step of every reachable state is a
\* statement about every step.
Last == Len(trace)

\* Step k took a whole line at the await of line 155.
IsCommandStep(k) == trace[k].pc = "AWAIT_LINE" /\ ~trace[k].isError

\* Step k took the first fragment of an overflowed line.
IsOverflowStep(k) == trace[k].pc = "AWAIT_LINE" /\ trace[k].isError

\* Step k took a further fragment inside the flush loop.
IsFlushStep(k) == trace[k].pc = "RECOVER_OVERFLOW"

\* Step k took the fragment that ends the overflowed line.
IsTailStep(k) == trace[k].pc = "RECOVER_OVERFLOW" /\ ~trace[k].isError

----------------------------------------------------------------------------
(* C1 *)

\* C1: the Success fragment that ends an overflowed line is discarded: the
\* step that takes it calls no handler, writes no help text and no "Unknown
\* command" line, and leaves runRoutine() at AWAIT_LINE; the Success outcome
\* that follows is taken at AWAIT_LINE and dispatched as runCommand() does a
\* fresh line.
C1_TailDiscardedThenFresh ==
    \A k \in Steps :
        /\ IsTailStep(k) =>
              /\ StepCalls(k) = << >>
              /\ \A i \in 1..Len(StepOut(k)) : ~IsDispatchOutput(StepOut(k)[i])
              /\ PcAfter(k) = "AWAIT_LINE"
        /\ (k > 1 /\ IsTailStep(k - 1) /\ ~trace[k].isError) =>
              /\ IsCommandStep(k)
              /\ StepOut(k) = RunCommand(table, trace[k].line).out
              /\ StepCalls(k) = RunCommand(table, trace[k].line).calls
              /\ PcAfter(k) = "AWAIT_LINE"

\* An overflowed line ended by a fragment that reads as a registered command,
\* and after it the same command as a fresh line, which called its handler.
C1_Witness ==
    /\ Len(trace) = 3
    /\ table = TableUnique
    /\ IsOverflowStep(1)
    /\ IsTailStep(2) /\ trace[2].line = L_a_x_y
    /\ IsCommandStep(3) /\ trace[3].line = L_a_x_y
    /\ Len(calls) = 1 /\ calls[1].handler = 1

----------------------------------------------------------------------------
(* C2 *)

\* C2 as claimed: a FlushToEOL line is written once for each fragment fetched
\* in the flush loop that reports overflow and for no other fragment; the
\* outcomes Overflow(abc), Overflow(def), Success(ghi) write exactly
\* "BufferOverflow: abc" and "FlushToEOL: def".
C2_FlushOnlyForOverflowFragments ==
    /\ \A k \in Steps :
          CountPrefixed(StepOut(k), S_FlushToEOL) =
              IF IsFlushStep(k) /\ trace[k].isError THEN 1 ELSE 0
    /\ (/\ Len(trace) = 3
        /\ trace[1].isError /\ trace[1].line = L_abc
        /\ trace[2].isError /\ trace[2].line = L_def
        /\ ~trace[3].isError /\ trace[3].line = L_ghi)
       => serial = << S_BufferOverflow \o L_abc, S_FlushToEOL \o L_def >>

\* C2 amended: a FlushToEOL line is written once for every fragment fetched in
\* the flush loop, the Success fragment that ends the line included, and for no
\* other outcome; the outcomes Overflow(abc), Overflow(def), Success(ghi) write
\* exactly "BufferOverflow: abc", "FlushToEOL: def", "FlushToEOL: ghi".
C2_FlushForEveryFetchedFragment ==
    /\ \A k \in Steps :
          /\ CountPrefixed(StepOut(k), S_FlushToEOL) = IF IsFlushStep(k) THEN 1 ELSE 0
          /\ IsFlushStep(k) => StepOut(k) = << S_FlushToEOL \o trace[k].line >>
    /\ (/\ Len(trace) = 3
        /\ trace[1].isError /\ trace[1].line = L_abc
        /\ trace[2].isError /\ trace[2].line = L_def
        /\ ~trace[3].isError /\ trace[3].line = L_ghi)
       => serial = << S_BufferOverflow \o L_abc, S_FlushToEOL \o L_def,
                      S_FlushToEOL \o L_ghi >>

\* The three outcomes of the example have been taken.
C2_Witness ==
    /\ Len(trace) = 3
    /\ trace[1].isError /\ trace[1].line = L_abc
    /\ trace[2].isError /\ trace[2].line = L_def
    /\ ~trace[3].isError /\ trace[3].line = L_ghi
    /\ Len(serial) = 3
    /\ pc = "AWAIT_LINE"

----------------------------------------------------------------------------
(* C3 *)

\* C3: a BufferOverflow line is written once, with the fragment's content, by
\* the step that takes an Overflow outcome at AWAIT_LINE, which then leaves
\* runRoutine() in the flush loop; no step of the flush loop and no step that
\* takes a whole line writes one; once the flush loop has ended, the next
\* outcome is taken at AWAIT_LINE again, so that an Overflow there is reported
\* as a new event.
C3_BufferOverflowOncePerEvent ==
    \A k \in Steps :
        /\ CountPrefixed(StepOut(k), S_BufferOverflow) = IF IsOverflowStep(k) THEN 1 ELSE 0
        /\ IsOverflowStep(k) =>
              /\ StepOut(k) = << S_BufferOverflow \o trace[k].line >>
              /\ PcAfter(k) = "RECOVER_OVERFLOW"
        /\ (k > 1 /\ IsTailStep(k - 1)) => trace[k].pc = "AWAIT_LINE"
        /\ (k > 1 /\ IsFlushStep(k - 1) /\ trace[k - 1].isError) => IsFlushStep(k)

\* Two overflow events, the second after the first has been recovered from:
\* each wrote its own BufferOverflow line.
C3_Witness ==
    /\ Len(trace) = 3
    /\ IsOverflowStep(1) /\ IsTailStep(2) /\ IsOverflowStep(3)
    /\ CountPrefixed(serial, S_BufferOverflow) = 2
    /\ pc = "RECOVER_OVERFLOW"

----------------------------------------------------------------------------
(* C4 *)

UniqueNames(tbl) ==
    \A i, j \in 1..Len(tbl) : tbl[i].name = tbl[j].name => i = j

\* A name that is one token: not empty and free of delimiters.
IsToken(name) == name # << >> /\ \A n \in 1..Len(name) : name[n] \notin DELIMS

\* The line "<name> x y".
NameXY(name) == name \o << " ", "x", " ", "y" >>

\* The call of record i's handler with argc = 3 and argv = [name, "x", "y"].
CallXY(tbl, i) ==
    [handler |-> tbl[i].handler, argc |-> 3,
     argv |-> << tbl[i].name, << "x" >>, << "y" >> >>]

\* C4 as claimed: with a table of unique names, the line "<name> x y" of any
\* registered entry, taken at AWAIT_LINE, calls that entry's handler once with
\* argc = 3 and argv = [<name>, "x", "y"], and calls no other handler.
C4_EveryEntryDispatched ==
    \A i \in 1..Len(table) :
        (/\ Last >= 1
         /\ IsCommandStep(Last)
         /\ UniqueNames(table)
         /\ trace[Last].line = NameXY(table[i].name))
        => StepCalls(Last) = << CallXY(table, i) >>

\* C4 amended: the same for every registered entry whose name is one token
\* (free of delimiters) other than "help".
C4_EveryTokenEntryButHelpDispatched ==
    \A i \in 1..Len(table) :
        (/\ Last >= 1
         /\ IsCommandStep(Last)
         /\ UniqueNames(table)
         /\ IsToken(table[i].name)
         /\ table[i].name # S_help
         /\ trace[Last].line = NameXY(table[i].name))
        => StepCalls(Last) = << CallXY(table, i) >>

\* The line "b x y" has been dispatched to the second record of a table.
C4_Witness ==
    /\ table = TableUnique
    /\ Len(trace) = 1
    /\ IsCommandStep(1) /\ trace[1].line = L_b_x_y
    /\ calls = << CallXY(table, 2) >>

----------------------------------------------------------------------------
(* C5 *)

\* The first token of the line is exactly "help".
IsHelpLine(line) == NumRuns(line) >= 1 /\ NthRun(line, 1) = S_help

\* The handlers of the records named "help".
HelpNamedHandlers == {table[i].handler : i \in {n \in 1..Len(table) : table[n].name = S_help}}

\* C5: a line whose first token is "help" is answered by the built-in help
\* handler, whatever the table holds, and the handler of a record named "help"
\* has never been called.
C5_HelpIntercepted ==
    /\ \A c \in 1..Len(calls) : calls[c].handler \notin HelpNamedHandlers
    /\ (Last >= 1 /\ IsCommandStep(Last) /\ IsHelpLine(trace[Last].line)) =>
          LET n == Min(NumRuns(trace[Last].line), ARGV_SIZE)
          IN  /\ StepCalls(Last) = << >>
              /\ StepOut(Last) = HelpCommandHandler(table, n, FirstRuns(trace[Last].line, n))

\* A table with a record named "help" has taken the line "help x y".
C5_Witness ==
    /\ table = TableWithHelp
    /\ HelpNamedHandlers = {2}
    /\ Len(trace) >= 1
    /\ IsCommandStep(Len(trace)) /\ trace[Len(trace)].line = L_help_x_y
    /\ StepOut(Len(trace)) # << >>

----------------------------------------------------------------------------
(* C6 *)

\* C6: a whole line whose first token is not "help" and equals no record's
\* name writes the one line "Unknown command: <token>", calls no handler and
\* leaves runRoutine() at AWAIT_LINE.
C6_UnknownCommand ==
    (/\ Last >= 1
     /\ IsCommandStep(Last)
     /\ NumRuns(trace[Last].line) >= 1
     /\ NthRun(trace[Last].line, 1) # S_help
     /\ \A i \in 1..Len(table) : table[i].name # NthRun(trace[Last].line, 1))
    => /\ StepOut(Last) = << S_UnknownCommand \o NthRun(trace[Last].line, 1) >>
       /\ StepCalls(Last) = << >>
       /\ pc = "AWAIT_LINE"

\* A table that has "a" has taken a line that starts with "A".
C6_Witness ==
    /\ table = TableUnique
    /\ Len(trace) = 2
    /\ IsCommandStep(2) /\ trace[2].line = L_A_x_y
    /\ StepOut(2) = << S_UnknownCommand \o << "A" >> >>
    /\ pc = "AWAIT_LINE"

----------------------------------------------------------------------------
(* C7 *)

\* C7: for a line of at most tokSize tokens, tokenize() returns the maximal
\* runs of non-delimiters of the line, left to right, and their number: no
\* empty token, none for leading, trailing or repeated delimiters, and
\* argc = 0 for a line without a token.
C7_TokensAreMaximalRuns ==
    (tokResult # << >> /\ NumRuns(tokLine) <= tokSize) =>
        /\ tokResult[1].argc = NumRuns(tokLine)
        /\ tokResult[1].argv = MaximalRuns(tokLine)
        /\ \A n \in 1..tokResult[1].argc : IsToken(tokResult[1].argv[n])
        /\ (\A n \in 1..Len(tokLine) : tokLine[n] \in DELIMS) => tokResult[1].argc = 0

\* tokenize() has split a line that starts and ends with a delimiter and has
\* two delimiters in a row between tokens.
C7_Witness ==
    /\ tokResult # << >>
    /\ Len(tokLine) >= 2
    /\ tokLine[1] \in DELIMS
    /\ tokLine[Len(tokLine)] \in DELIMS
    /\ \E n \in 2..(Len(tokLine) - 2) :
          /\ tokLine[n] \in DELIMS /\ tokLine[n + 1] \in DELIMS
          /\ tokLine[n - 1] \notin DELIMS /\ tokLine[n + 2] \notin DELIMS
    /\ NumRuns(tokLine) <= tokSize
    /\ tokResult[1].argc >= 2

----------------------------------------------------------------------------
(* C8 *)

\* The tokens, each but the last followed by one space.
RECURSIVE JoinTokens(_)
JoinTokens(tokens) ==
    IF tokens = << >> THEN << >>
    ELSE IF Len(tokens) = 1 THEN tokens[1]
         ELSE tokens[1] \o << " " >> \o JoinTokens(Tail(tokens))

\* C8: a whole line of more than ARGV_SIZE tokens is dispatched with
\* argc = ARGV_SIZE and the first ARGV_SIZE tokens of the line, the last of
\* them without the text that follows it; what is written to Serial is what
\* the line cut after its ARGV_SIZE-th token writes, so nothing reports the
\* truncation; a registered command is still called.
C8_TruncatedToArgvSize ==
    (/\ Last >= 1
     /\ IsCommandStep(Last)
     /\ NumRuns(trace[Last].line) > ARGV_SIZE)
    => LET first == FirstRuns(trace[Last].line, ARGV_SIZE)
           matches == {i \in 1..Len(table) : table[i].name = first[1]}
       IN  /\ \A c \in 1..Len(StepCalls(Last)) :
                 /\ StepCalls(Last)[c].argc = ARGV_SIZE
                 /\ StepCalls(Last)[c].argv = first
           /\ StepOut(Last) = RunCommand(table, JoinTokens(first)).out
           /\ (first[1] # S_help /\ matches # {}) =>
                 /\ Len(StepCalls(Last)) = 1
                 /\ StepOut(Last) = << >>

\* A line of twelve tokens has called the handler of "a" with ten.
C8_Witness ==
    /\ table = TableUnique
    /\ Len(trace) = 1
    /\ IsCommandStep(1) /\ trace[1].line = L_a_long
    /\ NumRuns(L_a_long) = ARGV_SIZE + 2
    /\ Len(calls) = 1
    /\ calls[1].argc = ARGV_SIZE
    /\ calls[1].argv[ARGV_SIZE] = << "9" >>
    /\ serial = << >>

----------------------------------------------------------------------------
(* C9 *)

\* The names of the first n records in table order, each followed by a space.
RECURSIVE BannerNames(_, _)
BannerNames(tbl, n) ==
    IF n = 0 THEN << >> ELSE BannerNames(tbl, n - 1) \o tbl[n].name \o << " " >>

\* C9: a "help" line of argc other than 2 writes "Usage: help [command]" and
\* then "Commands: help " followed by the name of every record, once per
\* record and in table order; no handler is called and no name is looked up.
C9_HelpBanner ==
    (/\ Last >= 1
     /\ IsCommandStep(Last)
     /\ IsHelpLine(trace[Last].line)
     /\ Min(NumRuns(trace[Last].line), ARGV_SIZE) # 2)
    => /\ StepOut(Last) = << S_UsageHelp, S_CommandsHelp \o BannerNames(table, Len(table)) >>
       /\ StepCalls(Last) = << >>

\* "help" with nine arguments has written the banner of a three-record table.
C9_Witness ==
    /\ table = TableDuplicate
    /\ Len(trace) = 1
    /\ IsCommandStep(1) /\ trace[1].line = L_help_long
    /\ NumRuns(L_help_long) = ARGV_SIZE
    /\ serial = << S_UsageHelp,
                   S_CommandsHelp \o << "a", " ", "b", " ", "a", " " >> >>

----------------------------------------------------------------------------
(* C10 *)

\* The records named name.
Named(name) == {i \in 1..Len(table) : table[i].name = name}

\* The first of a non-empty set of record indexes.
FirstOf(S) == CHOOSE i \in S : \A j \in S : i <= j

\* C10: "help <name>" writes one line: "Usage: help [command]" when <name> is
\* "help", whatever the table holds; otherwise "Usage: <name> <helpString>" of
\* the first record named <name>; otherwise "Unknown command: <name>".
C10_HelpForName ==
    (/\ Last >= 1
     /\ IsCommandStep(Last)
     /\ IsHelpLine(trace[Last].line)
     /\ NumRuns(trace[Last].line) = 2)
    => LET name == NthRun(trace[Last].line, 2)
       IN  /\ StepCalls(Last) = << >>
           /\ StepOut(Last) =
                 IF name = S_help THEN << S_UsageHelp >>
                 ELSE IF Named(name) # {}
                      THEN << S_Usage \o name \o << " " >>
                                \o table[FirstOf(Named(name))].helpString >>
                      ELSE << S_UnknownCommand \o name >>

\* "help help" has been answered by a table that has a record named "help".
C10_Witness ==
    /\ table = TableWithHelp
    /\ Len(trace) = 1
    /\ IsCommandStep(1) /\ trace[1].line = L_help_help
    /\ Named(S_help) = {2}
    /\ serial = << S_UsageHelp >>

----------------------------------------------------------------------------
(* C11 *)

\* Step k wrote an "Unknown command" line: for a command or for a help target.
IsUnknownStep(k) ==
    \E i \in 1..Len(StepOut(k)) : IsPrefix(S_UnknownCommand, StepOut(k)[i])

\* Step k ended an error path: the flush loop, or an unknown name.
EndsErrorPath(k) == IsTailStep(k) \/ (IsCommandStep(k) /\ IsUnknownStep(k))

\* C11: the step that ends an error path leaves runRoutine() at AWAIT_LINE; a
\* Success outcome that follows it is taken as a command, and every whole line
\* taken after an error path is dispatched as runCommand() dispatches it on
\* its own: "<name> x y" of a registered token name other than "help" calls
\* that record's handler.
C11_ResumesAfterError ==
    Last >= 1 =>
        /\ EndsErrorPath(Last) => pc = "AWAIT_LINE"
        /\ (Last >= 2 /\ EndsErrorPath(Last - 1) /\ ~trace[Last].isError)
              => IsCommandStep(Last)
        /\ (IsCommandStep(Last) /\ \E j \in 1..(Last - 1) : EndsErrorPath(j)) =>
              /\ StepOut(Last) = RunCommand(table, trace[Last].line).out
              /\ StepCalls(Last) = RunCommand(table, trace[Last].line).calls
              /\ pc = "AWAIT_LINE"
              /\ \A i \in 1..Len(table) :
                    (/\ UniqueNames(table)
                     /\ IsToken(table[i].name)
                     /\ table[i].name # S_help
                     /\ trace[Last].line = NameXY(table[i].name))
                    => StepCalls(Last) = << CallXY(table, i) >>

\* An unknown help target, then an unknown command, then "b x y", which called
\* the handler of "b".
C11_Witness ==
    /\ table = TableUnique
    /\ Len(trace) = 3
    /\ IsCommandStep(1) /\ trace[1].line = L_help_c /\ IsUnknownStep(1)
    /\ IsCommandStep(2) /\ trace[2].line = L_A_x_y /\ IsUnknownStep(2)
    /\ IsCommandStep(3) /\ trace[3].line = L_b_x_y
    /\ calls = << CallXY(table, 2) >>
    /\ pc = "AWAIT_LINE"

----------------------------------------------------------------------------
(* C12 *)

\* What runRoutine() owes for outcome k, start to end: the reaction of the
\* await that took it.
Owed(k) ==
    IF trace[k].pc = "AWAIT_LINE"
    THEN AwaitLineStep(table, trace[k].isError, trace[k].line)
    ELSE RecoverStep(table, trace[k].isError, trace[k].line)

\* C12: outcomes are processed in arrival order and one at a time. Nothing is
\* written or called before the first outcome; what is written and called
\* between the fetch of outcome k and the fetch of outcome k+1 is exactly the
\* reaction owed to outcome k, so that Serial and the handler calls are the
\* reactions in the order of the outcomes and each reaction is complete when
\* the next outcome is fetched; for the outcome fetched last, what is written
\* and called so far is a prefix of its reaction, and the whole of it once
\* runRoutine() stands at an await again.
C12_ArrivalOrder ==
    /\ Last >= 1 => trace[1].serialAt = 0 /\ trace[1].callsAt = 0
    /\ Last = 0 => serial = << >> /\ calls = << >>
    /\ \A k \in Steps :
          /\ k < Last =>
                /\ StepOut(k) = Owed(k).out
                /\ StepCalls(k) = Owed(k).calls
          /\ k = Last =>
                /\ IsPrefix(StepOut(k), Owed(k).out)
                /\ IsPrefix(StepCalls(k), Owed(k).calls)
                /\ pc \in {"AWAIT_LINE", "RECOVER_OVERFLOW"} =>
                      /\ StepOut(k) = Owed(k).out
                      /\ StepCalls(k) = Owed(k).calls

\* An overflowed line, the fragment that ends it and the command 'a x y' have
\* arrived in this order; the two diagnostics and the one handler call are
\* made and runRoutine() is suspended at the await of line 155.
C12_Witness ==
    /\ table = TableUnique
    /\ Len(trace) = 3
    /\ IsOverflowStep(1) /\ trace[1].line = L_abc
    /\ IsTailStep(2) /\ trace[2].line = L_a_x_y
    /\ IsCommandStep(3) /\ trace[3].line = L_a_x_y
    /\ Len(serial) = 2 /\ trace[3].serialAt = 2
    /\ Len(calls) = 1 /\ trace[3].callsAt = 0
    /\ pc = "AWAIT_LINE" /\ ~running

----------------------------------------------------------------------------
(* C13 *)

\* A whole line has been received at line 155 and runCommand(line) has not
\* returned yet.
InHand == pc \in {"IF_ERROR", "RUN_COMMAND"} /\ ~cur.isError

\* C13: runRoutine() is out of the scheduler's turn only at one of its two
\* awaits; from the receipt of a whole line to the return of runCommand(line)
\* it is inside the one turn the scheduler gave it, and no other coroutine has
\* had a turn since.
C13_YieldsOnlyAtAwait ==
    /\ ~running => pc \in {"AWAIT_LINE", "RECOVER_OVERFLOW"}
    /\ InHand => running /\ lastRan = "dispatcher"
    /\ lastRan = "other" => ~running /\ ~InHand

\* The command 'a x y' was received and dispatched to its handler, and
\* runRoutine() is back at the await of line 155 within the same turn.
C13_Witness ==
    /\ table = TableUnique
    /\ Last >= 1
    /\ IsCommandStep(Last) /\ trace[Last].line = L_a_x_y
    /\ Len(StepCalls(Last)) = 1
    /\ running /\ lastRan = "dispatcher"
    /\ pc = "AWAIT_LINE"

----------------------------------------------------------------------------
(* C14 *)

RECURSIVE RunToAwait(_, _, _, _, _)
\* The statement runRoutine() stands at after at most n statements from p,
\* stopping at the first await.
RunToAwait(tbl, p, isError, line, n) ==
    IF n = 0 \/ p \in {"AWAIT_LINE", "RECOVER_OVERFLOW"} \/ p \notin Statements
    THEN p
    ELSE RunToAwait(tbl, ExecStatement(tbl, p, isError, line).pc, isError, line, n - 1)

\* C14: runRoutine() never leaves its loop: it always stands at one of the
\* loop's statements; from wherever it stands, at most three statements bring
\* it to an await, where the next outcome is taken whatever it is; and when it
\* is suspended after some outcomes, it is at the await of line 160 if the
\* last outcome was an overflow and at the await of line 155 if not.
C14_NoTerminalState ==
    /\ pc \in Statements
    /\ RunToAwait(table, pc, cur.isError, cur.line, 3)
          \in {"AWAIT_LINE", "RECOVER_OVERFLOW"}
    /\ ~running /\ Last >= 1 =>
          pc = IF trace[Last].isError THEN "RECOVER_OVERFLOW" ELSE "AWAIT_LINE"

\* An overflowed line ended by an empty fragment and then an over-long
\* command have been taken; runRoutine() is suspended at the await of line 155.
C14_Witness ==
    /\ Len(trace) = 3
    /\ IsOverflowStep(1)
    /\ IsTailStep(2) /\ trace[2].line = L_empty
    /\ IsCommandStep(3) /\ trace[3].line = L_a_long
    /\ pc = "AWAIT_LINE" /\ ~running

\* An empty line and an unknown command have been taken; runRoutine() is
\* suspended at the await of line 155.
C14_WitnessUnknown ==
    /\ Len(trace) = 2
    /\ IsCommandStep(1) /\ trace[1].line = L_empty
    /\ IsCommandStep(2) /\ trace[2].line = L_A_x_y
    /\ pc = "AWAIT_LINE" /\ ~running

----------------------------------------------------------------------------
(* C15 *)

\* C15: a step that takes an Overflow outcome, at AWAIT_LINE or in the flush
\* loop, calls no handler and writes neither help text nor "Unknown command";
\* it writes the fragment whole in one diagnostic and suspends in the flush
\* loop, whatever the fragment holds.
C15_OverflowNeverDispatched ==
    (Last >= 1 /\ trace[Last].isError) =>
        /\ StepCalls(Last) = << >>
        /\ \A i \in 1..Len(StepOut(Last)) : ~IsDispatchOutput(StepOut(Last)[i])
        /\ StepOut(Last) =
              << (IF IsOverflowStep(Last) THEN S_BufferOverflow ELSE S_FlushToEOL)
                    \o trace[Last].line >>
        /\ pc = "RECOVER_OVERFLOW"

\* The fragments "a x y" and "help" of one overflowed line have been taken by
\* a table that has "a": no handler was called.
C15_Witness ==
    /\ table = TableUnique
    /\ Len(trace) = 2
    /\ IsOverflowStep(1) /\ trace[1].line = L_a_x_y
    /\ IsFlushStep(2) /\ trace[2].isError /\ trace[2].line = L_help
    /\ calls = << >>
    /\ Len(serial) = 2

----------------------------------------------------------------------------
(* C16 *)

\* C16: when records share the name argv[0], the whole line calls the handler
\* of the first of them, once, and no other; the scan compares as many records
\* as lie up to that one, and numCommands records when none matches.
C16_FirstMatchWins ==
    (/\ Last >= 1
     /\ IsCommandStep(Last)
     /\ NumRuns(trace[Last].line) >= 1
     /\ NthRun(trace[Last].line, 1) # S_help)
    => LET cmd == NthRun(trace[Last].line, 1)
           argc == Min(NumRuns(trace[Last].line), ARGV_SIZE)
       IN  /\ ScanLength(table, cmd, 1) <= Len(table)
           /\ Named(cmd) = {} => ScanLength(table, cmd, 1) = Len(table)
           /\ Named(cmd) # {} =>
                 /\ ScanLength(table, cmd, 1) = FirstOf(Named(cmd))
                 /\ StepCalls(Last) =
                       << [handler |-> table[FirstOf(Named(cmd))].handler,
                           argc |-> argc,
                           argv |-> FirstRuns(trace[Last].line, argc)] >>

\* "a x y" has been dispatched by a table whose first and third records are
\* named "a": the first record's handler was called.
C16_Witness ==
    /\ table = TableDuplicate
    /\ Named(<< "a" >>) = {1, 3}
    /\ Len(trace) = 1
    /\ IsCommandStep(1) /\ trace[1].line = L_a_x_y
    /\ Len(calls) = 1
    /\ calls[1].handler = 1

----------------------------------------------------------------------------
(* C17 *)

\* C17: every handler call made so far has 1 <= argc <= ARGV_SIZE and argc
\* strings in argv, each a non-empty token free of delimiters, the first of
\* them the name of the record whose handler is called; the call of the last
\* step has the first argc tokens of that step's line.
C17_HandlerArguments ==
    /\ \A c \in 1..Len(calls) :
          /\ 1 <= calls[c].argc /\ calls[c].argc <= ARGV_SIZE
          /\ Len(calls[c].argv) = calls[c].argc
          /\ \A n \in 1..calls[c].argc : IsToken(calls[c].argv[n])
          /\ \E i \in 1..Len(table) :
                /\ table[i].handler = calls[c].handler
                /\ table[i].name = calls[c].argv[1]
    /\ Last >= 1 =>
          \A c \in 1..Len(StepCalls(Last)) :
              StepCalls(Last)[c].argv =
                  FirstRuns(trace[Last].line, StepCalls(Last)[c].argc)

\* The handler of "b" has been called with the first ten of eleven tokens.
C17_Witness ==
    /\ table = TableUnique
    /\ Len(trace) = 1
    /\ trace[1].line = L_b_long
    /\ Len(calls) = 1
    /\ calls[1].handler = 2
    /\ calls[1].argc = ARGV_SIZE
    /\ calls[1].argv[1] = << "b" >>

----------------------------------------------------------------------------
(* C18 *)

\* C18: a whole line without a token, taken at AWAIT_LINE, writes nothing,
\* calls no handler and leaves runRoutine() at AWAIT_LINE.
C18_EmptyLineIgnored ==
    (/\ Last >= 1
     /\ IsCommandStep(Last)
     /\ NumRuns(trace[Last].line) = 0)
    => /\ StepOut(Last) = << >>
       /\ StepCalls(Last) = << >>
       /\ pc = "AWAIT_LINE"

\* A line of delimiters only and an empty line have been taken: nothing was
\* written or called.
C18_Witness ==
    /\ Len(trace) = 2
    /\ IsCommandStep(1) /\ trace[1].line = L_delims
    /\ IsCommandStep(2) /\ trace[2].line = L_empty
    /\ serial = << >>
    /\ calls = << >>
    /\ pc = "AWAIT_LINE"

----------------------------------------------------------------------------
(* C19 *)

\* C19: a whole line whose first token is "help" leaves the number of handler
\* calls as it was, whatever its arguments, and writes text to Serial.
C19_HelpCallsNoHandler ==
    (/\ Last >= 1
     /\ IsCommandStep(Last)
     /\ IsHelpLine(trace[Last].line))
    => /\ Len(calls) = trace[Last].callsAt
       /\ Len(serial) > trace[Last].serialAt

\* "a x y" called a handler, then "help a" wrote the usage of "a" and called
\* none.
C19_Witness ==
    /\ table = TableUnique
    /\ Len(trace) = 2
    /\ IsCommandStep(1) /\ trace[1].line = L_a_x_y
    /\ IsCommandStep(2) /\ trace[2].line = L_help_a
    /\ Len(calls) = 1
    /\ StepOut(2) = << S_Usage \o << "a", " ", "<", "n", ">" >> >>

----------------------------------------------------------------------------
(* C20 *)

\* C20: no line written to Serial is "UnknownError"; the one line a step
\* writes for an Overflow outcome or inside the flush loop starts with
\* "BufferOverflow: " or with "FlushToEOL: ", and no step that dispatches a
\* whole line writes a line-error diagnostic.
C20_NoUnknownError ==
    /\ \A i \in 1..Len(serial) : ~IsPrefix(S_UnknownError, serial[i])
    /\ \A k \in Steps :
          IF IsOverflowStep(k) \/ IsFlushStep(k)
          THEN /\ Len(StepOut(k)) = 1
               /\ \/ IsPrefix(S_BufferOverflow, StepOut(k)[1])
                  \/ IsPrefix(S_FlushToEOL, StepOut(k)[1])
          ELSE /\ CountPrefixed(StepOut(k), S_BufferOverflow) = 0
               /\ CountPrefixed(StepOut(k), S_FlushToEOL) = 0

\* printLineError() has been called with each of the two status codes.
C20_Witness ==
    /\ Len(trace) = 3
    /\ IsOverflowStep(1) /\ IsFlushStep(2) /\ IsFlushStep(3)
    /\ CountPrefixed(serial, S_BufferOverflow) = 1
    /\ CountPrefixed(serial, S_FlushToEOL) = 2

====
